---- MODULE Spec2Model ----
(***************************************************************************)
(* Ride-dispatch simulation (src/routes.py, src/helpers.py, src/models.py).*)
(* The three in-memory stores and the tick counter are the state; every    *)
(* HTTP handler is one atomic action (single-threaded event loop, no await *)
(* inside a handler body).                                                 *)
(***************************************************************************)
EXTENDS Integers, Sequences, FiniteSets, TLC

\* ---------------------------------------------------------------- bounds
\* Spec, every operation: entities created and ticks between two clear_state
MaxDrivers == 2
MaxRiders == 1
MaxRides == 1
MaxTick == 2
\* SpecNoDelete, every operation but the two deletions
MaxKeptDrivers == 2
MaxKeptRides == 2
MaxKeptTick == 2
\* SpecCap, the offer cap
MaxCapDrivers == 2
MaxCapRides == 6
\* SpecMove, the movement: ticks while no ride is under way
MaxMoveDrivers == 2
MaxMoveRides == 2
MaxMoveTick == 1
\* the specification of the whole interface, wrong inputs included
MaxApiDrivers == 1
MaxApiRiders == 1
MaxApiRides == 1
MaxApiTick == 2
\* drivers that answer every offer they hold, and may be deleted
MaxAnswerDrivers == 2
MaxAnswerRides == 2
\* drivers at the same distance from the pickup
MaxTieDrivers == 3
MaxTieRides == 2
\* the largest coordinate of the locations whose distances are measured
MaxCoord == 3

\* ------------------------------------------------------ program constants
GRID_SIZE == 100
MAX_DRIVER_REQUESTS == 5

NONE == 0            \* Python None; identifiers are 1, 2, ...

Loc(x, y) == [x |-> x, y |-> y]

\* request bodies sent to create_rider and respond
RiderTrips == { <<Loc(1, 0), Loc(1, 1)>> }
Actions == {"accept", "reject", "ACCEPT", "cancel"}
CapRiderTrips == { <<Loc(8, 0), Loc(8, 1)>> }
CapActions == {"accept", "reject"}
MoveRiderTrips == { <<Loc(2, 1), Loc(0, 2)>>, <<Loc(1, 3), Loc(3, 3)>> }
MoveActions == {"accept", "reject"}
ApiRiderTrips == { <<Loc(GRID_SIZE - 1, 0), Loc(GRID_SIZE - 2, 0)>>,
                   <<Loc(GRID_SIZE - 1, 0), Loc(GRID_SIZE - 1, 0)>>,
                   <<Loc(0 - 1, 0), Loc(0, 0)>>,
                   <<Loc(0, 0), Loc(0, GRID_SIZE)>> }
ApiActions == {"accept", "reject", "cancel"}
AnswerActions == {"accept", "reject"}
TieRiderTrips == { <<Loc(1, 1), Loc(1, 2)>> }
TieActions == {"accept", "reject"}

VARIABLES
    drivers,        \* routes.py:11  id -> Driver
    riders,         \* routes.py:12  id -> Rider
    ride_requests,  \* routes.py:13  id -> RideRequest
    current_tick,   \* routes.py:14
    next_id,        \* the identifiers uuid4 hands out next, per store
    response        \* the handler that ran last, its HTTP status code and,
                    \* for tick and clear_state, the tick number it returned

vars == <<drivers, riders, ride_requests, current_tick, next_id, response>>
store == <<drivers, riders, ride_requests, current_tick>>

\* ---------------------------------------------------------------- helpers
Range(s) == {s[i] : i \in DOMAIN s}

Max(a, b) == IF a >= b THEN a ELSE b

Abs(a) == IF a >= 0 THEN a ELSE -a

\* str.lower() on the action strings the model sends
lower(s) == IF s = "ACCEPT" THEN "accept" ELSE s

\* list.remove(x) guarded by "if x in list": drops the first occurrence
RECURSIVE remove(_, _)
remove(s, x) ==
    IF s = <<>> THEN <<>>
    ELSE IF Head(s) = x THEN Tail(s)
    ELSE <<Head(s)>> \o remove(Tail(s), x)

\* dict iteration order: insertion order; identifiers are handed out in
\* increasing order, so this is the ascending order of the keys present
RECURSIVE insertion_order(_)
insertion_order(S) ==
    IF S = {} THEN <<>>
    ELSE LET m == CHOOSE a \in S : \A b \in S : a <= b
         IN <<m>> \o insertion_order(S \ {m})

\* the y offset taken as it is instead of squared
calculate_lopsided_distance(location1, location2) ==
    (location2.x - location1.x) * (location2.x - location1.x)
      + (location2.y - location1.y)

\* The distance the ordering is based on.  math.sqrt is strictly increasing
\* and exact enough on the integers below 2 * GRID_SIZE^2 to keep distinct
\* squares distinct, so the squared distance orders (and ties) identically.
calculate_euclidean_distance(location1, location2) ==
    (location2.x - location1.x) * (location2.x - location1.x)
      + (location2.y - location1.y) * (location2.y - location1.y)

\* the sort left out: the list stays in the order of the scan
sort_by_distance_unsorted(s) == s

\* an unstable sort: of the elements with the same key the last comes first
RECURSIVE sort_by_distance_latest_first(_)
sort_by_distance_latest_first(s) ==
    IF s = <<>> THEN <<>>
    ELSE LET i == CHOOSE k \in DOMAIN s :
                      /\ \A j \in DOMAIN s : s[k][2] <= s[j][2]
                      /\ \A j \in (k + 1)..Len(s) : s[j][2] > s[k][2]
         IN <<s[i]>> \o sort_by_distance_latest_first(SubSeq(s, 1, i - 1)
                                                          \o SubSeq(s, i + 1, Len(s)))

\* list.sort(key = x[1]): stable, so the first minimal element comes first
RECURSIVE sort_by_distance(_)
sort_by_distance(s) ==
    IF s = <<>> THEN <<>>
    ELSE LET i == CHOOSE k \in DOMAIN s :
                      /\ \A j \in DOMAIN s : s[k][2] <= s[j][2]
                      /\ \A j \in 1..(k - 1) : s[j][2] > s[k][2]
         IN <<s[i]>> \o sort_by_distance(SubSeq(s, 1, i - 1) \o SubSeq(s, i + 1, Len(s)))

\* the filter with an off-by-one cap: a full queue still takes an offer
is_available_full_queue(driver_id, driver, exclude_drivers, max_driver_requests) ==
    /\ driver_id \notin exclude_drivers
    /\ driver.status = "idle"
    /\ Len(driver.pending_requests) <= max_driver_requests

\* the filter that forgets the excluded drivers
is_available_ignore_excluded(driver_id, driver, exclude_drivers, max_driver_requests) ==
    /\ driver.status = "idle"
    /\ Len(driver.pending_requests) < max_driver_requests

\* the filter that takes a driver whatever it is doing
is_available_any_status(driver_id, driver, exclude_drivers, max_driver_requests) ==
    /\ driver_id \notin exclude_drivers
    /\ Len(driver.pending_requests) < max_driver_requests

\* helpers.py:16-18: the filter of find_available_drivers
is_available(driver_id, driver, exclude_drivers, max_driver_requests) ==
    /\ driver_id \notin exclude_drivers
    /\ driver.status = "idle"
    /\ Len(driver.pending_requests) < max_driver_requests

RECURSIVE available_scan(_, _, _, _, _)
available_scan(order, drv, pickup_location, exclude_drivers, max_driver_requests) ==
    IF order = <<>> THEN <<>>
    ELSE LET driver_id == Head(order)
             driver == drv[driver_id]
             rest == available_scan(Tail(order), drv, pickup_location,
                                    exclude_drivers, max_driver_requests)
         IN IF is_available(driver_id, driver, exclude_drivers, max_driver_requests)
            THEN <<<<driver_id,
                     calculate_euclidean_distance(driver.location, pickup_location)>>>> \o rest
            ELSE rest

\* the list sorted farthest first
RECURSIVE reversed(_)
reversed(s) == IF s = <<>> THEN <<>> ELSE Append(reversed(Tail(s)), Head(s))

find_farthest_drivers(drv, pickup_location, exclude_drivers, max_driver_requests) ==
    reversed(sort_by_distance(available_scan(insertion_order(DOMAIN drv), drv,
                                             pickup_location, exclude_drivers,
                                             max_driver_requests)))

find_available_drivers(drv, pickup_location, exclude_drivers, max_driver_requests) ==
    sort_by_distance(available_scan(insertion_order(DOMAIN drv), drv, pickup_location,
                                    exclude_drivers, max_driver_requests))

\* the rejection that forgets to clear the assigned driver
no_available_drivers_keep_driver(rds, ride_id) ==
    [rds EXCEPT ![ride_id].status = "rejected"]

\* the branch that unsets the driver but leaves the request PENDING
no_available_drivers_still_pending(rds, ride_id) ==
    [rds EXCEPT ![ride_id].assigned_driver_id = NONE]

\* helpers.py:41-44: no driver is available
no_available_drivers(rds, ride_id) ==
    [rds EXCEPT ![ride_id].status = "rejected",
                ![ride_id].assigned_driver_id = NONE]

\* the offer queued without the assignment being written to the request
send_request_unassigned(ride_id, drv, rds, max_driver_requests) ==
    LET ride_request == rds[ride_id]
        exclude_drivers == Range(ride_request.rejected_by)
        available_drivers == find_available_drivers(drv, ride_request.pickup_location,
                                                    exclude_drivers, max_driver_requests)
    IN IF available_drivers # <<>>
       THEN LET next_driver_id == available_drivers[1][1]
            IN [drivers |-> [drv EXCEPT ![next_driver_id].pending_requests =
                                             Append(@, ride_id)],
                ride_requests |-> rds]
       ELSE [drivers |-> drv, ride_requests |-> no_available_drivers(rds, ride_id)]

\* the ride request is rds[ride_id]; returns the stores it mutates
send_request_to_next_driver(ride_id, drv, rds, max_driver_requests) ==
    LET ride_request == rds[ride_id]
        exclude_drivers == Range(ride_request.rejected_by)
        available_drivers == find_available_drivers(drv, ride_request.pickup_location,
                                                    exclude_drivers, max_driver_requests)
    IN IF available_drivers # <<>>
       THEN LET next_driver_id == available_drivers[1][1]
            IN [drivers |-> [drv EXCEPT ![next_driver_id].pending_requests =
                                             Append(@, ride_id)],
                ride_requests |-> [rds EXCEPT ![ride_id].assigned_driver_id =
                                                  next_driver_id]]
       ELSE [drivers |-> drv, ride_requests |-> no_available_drivers(rds, ride_id)]

\* the step that forgets the y axis
move_driver_along_x(location, target_location) ==
    IF location.x < target_location.x THEN [location EXCEPT !.x = @ + 1]
    ELSE IF location.x > target_location.x THEN [location EXCEPT !.x = @ - 1]
    ELSE location

\* the step that moves along one axis at a time, x first
move_driver_along_one_axis(location, target_location) ==
    IF location.x < target_location.x THEN [location EXCEPT !.x = @ + 1]
    ELSE IF location.x > target_location.x THEN [location EXCEPT !.x = @ - 1]
    ELSE IF location.y < target_location.y THEN [location EXCEPT !.y = @ + 1]
    ELSE IF location.y > target_location.y THEN [location EXCEPT !.y = @ - 1]
    ELSE location

\* two cells a tick on every axis that is off target
move_driver_two_cells(location, target_location) ==
    [x |-> IF location.x < target_location.x THEN location.x + 2
           ELSE IF location.x > target_location.x THEN location.x - 2
           ELSE location.x,
     y |-> IF location.y < target_location.y THEN location.y + 2
           ELSE IF location.y > target_location.y THEN location.y - 2
           ELSE location.y]

move_driver_towards_location(location, target_location) ==
    [x |-> IF location.x < target_location.x THEN location.x + 1
           ELSE IF location.x > target_location.x THEN location.x - 1
           ELSE location.x,
     y |-> IF location.y < target_location.y THEN location.y + 1
           ELSE IF location.y > target_location.y THEN location.y - 1
           ELSE location.y]

\* the bounds check with the far edge taken as part of the grid
in_grid_inclusive(location) ==
    ~(location.x < 0 \/ location.y < 0 \/ location.x > GRID_SIZE \/ location.y > GRID_SIZE)

in_grid(location) ==
    ~(location.x < 0 \/ location.y < 0 \/ location.x >= GRID_SIZE \/ location.y >= GRID_SIZE)

\* ------------------------------------------------------------------- Init
Init ==
    /\ drivers = <<>>
    /\ riders = <<>>
    /\ ride_requests = <<>>
    /\ current_tick = 0
    /\ next_id = [driver |-> 1, rider |-> 1, ride |-> 1]
    /\ response = [op |-> "start", code |-> 200, tick |-> NONE]

Replied(op, code) == response' = [op |-> op, code |-> code, tick |-> NONE]

\* ---------------------------------------------------------------- actions
create_driver(location) ==
    /\ IF ~in_grid(location)
       THEN /\ Replied("create_driver", 400)
            /\ UNCHANGED <<store, next_id>>
       ELSE LET driver_id == next_id.driver
            IN /\ drivers' = (driver_id :> [location |-> location,
                                            status |-> "idle",
                                            pending_requests |-> <<>>,
                                            current_ride_id |-> NONE]) @@ drivers
               /\ next_id' = [next_id EXCEPT !.driver = @ + 1]
               /\ Replied("create_driver", 200)
               /\ UNCHANGED <<riders, ride_requests, current_tick>>

\* the delete that also takes the driver off the ride requests
delete_driver_unassign(driver_id) ==
    /\ IF driver_id \notin DOMAIN drivers
       THEN /\ Replied("delete_driver", 404)
            /\ UNCHANGED <<store, next_id>>
       ELSE /\ drivers' = [d \in DOMAIN drivers \ {driver_id} |-> drivers[d]]
            /\ ride_requests' =
                   [r \in DOMAIN ride_requests |->
                       IF ride_requests[r].assigned_driver_id = driver_id
                       THEN [ride_requests[r] EXCEPT !.assigned_driver_id = NONE]
                       ELSE ride_requests[r]]
            /\ Replied("delete_driver", 200)
            /\ UNCHANGED <<riders, current_tick, next_id>>

delete_driver(driver_id) ==
    /\ IF driver_id \notin DOMAIN drivers
       THEN /\ Replied("delete_driver", 404)
            /\ UNCHANGED <<store, next_id>>
       ELSE /\ drivers' = [d \in DOMAIN drivers \ {driver_id} |-> drivers[d]]
            /\ Replied("delete_driver", 200)
            /\ UNCHANGED <<riders, ride_requests, current_tick, next_id>>

create_rider(pickup_location, dropoff_location) ==
    /\ IF \/ ~in_grid(pickup_location)
          \/ ~in_grid(dropoff_location)
          \/ (pickup_location.x = dropoff_location.x /\ pickup_location.y = dropoff_location.y)
       THEN /\ Replied("create_rider", 400)
            /\ UNCHANGED <<store, next_id>>
       ELSE LET rider_id == next_id.rider
            IN /\ riders' = (rider_id :> [pickup_location |-> pickup_location,
                                          dropoff_location |-> dropoff_location,
                                          status |-> "waiting",
                                          current_ride_id |-> NONE]) @@ riders
               /\ next_id' = [next_id EXCEPT !.rider = @ + 1]
               /\ Replied("create_rider", 200)
               /\ UNCHANGED <<drivers, ride_requests, current_tick>>

\* the delete that takes the ride requests of the rider along
delete_rider_cascade(rider_id) ==
    /\ IF rider_id \notin DOMAIN riders
       THEN /\ Replied("delete_rider", 404)
            /\ UNCHANGED <<store, next_id>>
       ELSE /\ riders' = [r \in DOMAIN riders \ {rider_id} |-> riders[r]]
            /\ ride_requests' = [r \in {q \in DOMAIN ride_requests :
                                            ride_requests[q].rider_id # rider_id}
                                     |-> ride_requests[r]]
            /\ Replied("delete_rider", 200)
            /\ UNCHANGED <<drivers, current_tick, next_id>>

\* the delete that answers 200 for a rider that is not there
delete_rider_lenient(rider_id) ==
    /\ riders' = [r \in DOMAIN riders \ {rider_id} |-> riders[r]]
    /\ Replied("delete_rider", 200)
    /\ UNCHANGED <<drivers, ride_requests, current_tick, next_id>>

delete_rider(rider_id) ==
    /\ IF rider_id \notin DOMAIN riders
       THEN /\ Replied("delete_rider", 404)
            /\ UNCHANGED <<store, next_id>>
       ELSE /\ riders' = [r \in DOMAIN riders \ {rider_id} |-> riders[r]]
            /\ Replied("delete_rider", 200)
            /\ UNCHANGED <<drivers, ride_requests, current_tick, next_id>>

request_ride(rider_id) ==
    /\ IF rider_id \notin DOMAIN riders
       THEN /\ Replied("request_ride", 404)
            /\ UNCHANGED <<store, next_id>>
       ELSE LET rider == riders[rider_id]
                ride_id == next_id.ride
                ride_request == [rider_id |-> rider_id,
                                 pickup_location |-> rider.pickup_location,
                                 dropoff_location |-> rider.dropoff_location,
                                 status |-> "pending",
                                 assigned_driver_id |-> NONE,
                                 rejected_by |-> <<>>]
                available_drivers == find_available_drivers(drivers, rider.pickup_location,
                                                            {}, MAX_DRIVER_REQUESTS)
            IN /\ IF available_drivers # <<>>
                  THEN LET closest_driver_id == available_drivers[1][1]
                       IN /\ drivers' = [drivers EXCEPT ![closest_driver_id].pending_requests =
                                                            Append(@, ride_id)]
                          /\ ride_requests' =
                                 (ride_id :> [ride_request EXCEPT !.assigned_driver_id =
                                                                      closest_driver_id])
                                 @@ ride_requests
                  ELSE /\ drivers' = drivers
                       /\ ride_requests' =
                              (ride_id :> [ride_request EXCEPT !.status = "rejected"])
                              @@ ride_requests
               /\ next_id' = [next_id EXCEPT !.ride = @ + 1]
               /\ Replied("request_ride", 200)
               /\ UNCHANGED <<riders, current_tick>>

\* the checks without the one on the ride's status
respond_error_any_status(drv, rds, ride_id, action) ==
    IF ride_id \notin DOMAIN rds THEN 404
    ELSE IF \/ rds[ride_id].assigned_driver_id = NONE
            \/ rds[ride_id].assigned_driver_id \notin DOMAIN drv THEN 400
    ELSE IF lower(action) = "accept"
         THEN IF drv[rds[ride_id].assigned_driver_id].status # "idle" THEN 400 ELSE 0
    ELSE IF lower(action) = "reject" THEN 0
    ELSE 400

\* the checks with every unknown action taken as a reject
respond_error_any_action(drv, rds, ride_id, action) ==
    IF ride_id \notin DOMAIN rds THEN 404
    ELSE IF rds[ride_id].status # "pending" THEN 400
    ELSE IF \/ rds[ride_id].assigned_driver_id = NONE
            \/ rds[ride_id].assigned_driver_id \notin DOMAIN drv THEN 400
    ELSE IF lower(action) = "accept"
         THEN IF drv[rds[ride_id].assigned_driver_id].status # "idle" THEN 400 ELSE 0
    ELSE 0

\* the checks with a missing assigned driver reported as not found
respond_error_driver_not_found(drv, rds, ride_id, action) ==
    IF ride_id \notin DOMAIN rds THEN 404
    ELSE IF rds[ride_id].status # "pending" THEN 400
    ELSE IF \/ rds[ride_id].assigned_driver_id = NONE
            \/ rds[ride_id].assigned_driver_id \notin DOMAIN drv THEN 404
    ELSE IF lower(action) = "accept"
         THEN IF drv[rds[ride_id].assigned_driver_id].status # "idle" THEN 400 ELSE 0
    ELSE IF lower(action) = "reject" THEN 0
    ELSE 400

\* routes.py:208-242 and 287-290: every check that precedes the first mutation.
\* 0 when the response is processed, else the status code of the HTTPException.
respond_error(drv, rds, ride_id, action) ==
    IF ride_id \notin DOMAIN rds THEN 404
    ELSE IF rds[ride_id].status # "pending" THEN 400
    ELSE IF \/ rds[ride_id].assigned_driver_id = NONE
            \/ rds[ride_id].assigned_driver_id \notin DOMAIN drv THEN 400
    ELSE IF lower(action) = "accept"
         THEN IF drv[rds[ride_id].assigned_driver_id].status # "idle" THEN 400 ELSE 0
    ELSE IF lower(action) = "reject" THEN 0
    ELSE 400

\* the loop that re-routes the other offers without recording the rejection
RECURSIVE reject_others_unrecorded(_, _, _, _)
reject_others_unrecorded(others, driver_id, drv, rds) ==
    IF others = <<>> THEN [drivers |-> drv, ride_requests |-> rds]
    ELSE LET other_ride_id == Head(others)
             rds1 == [rds EXCEPT ![other_ride_id].assigned_driver_id = NONE]
             st == send_request_to_next_driver(other_ride_id, drv, rds1, MAX_DRIVER_REQUESTS)
         IN reject_others_unrecorded(Tail(others), driver_id, st.drivers, st.ride_requests)

\* routes.py:253-258: the loop over the snapshot of the driver's other offers
RECURSIVE reject_others(_, _, _, _)
reject_others(others, driver_id, drv, rds) ==
    IF others = <<>> THEN [drivers |-> drv, ride_requests |-> rds]
    ELSE LET other_ride_id == Head(others)
             rds1 == [rds EXCEPT ![other_ride_id].rejected_by = Append(@, driver_id),
                                 ![other_ride_id].assigned_driver_id = NONE]
             st == send_request_to_next_driver(other_ride_id, drv, rds1, MAX_DRIVER_REQUESTS)
         IN reject_others(Tail(others), driver_id, st.drivers, st.ride_requests)

\* the rider update that sets the status only
update_rider_status_only(rdr, rider_id, ride_id) ==
    [rdr EXCEPT ![rider_id].status = "assigned"]

\* routes.py:264-266: the rider of an accepted ride
update_rider_status(rdr, rider_id, ride_id) ==
    [rdr EXCEPT ![rider_id].status = "assigned",
                ![rider_id].current_ride_id = ride_id]

\* routes.py:244-266: the accept branch.  riders[ride.rider_id] is looked up
\* last; when the rider is gone the KeyError leaves every earlier mutation
\* in place and surfaces as a 500 (error = TRUE).
accept_ride(drv, rdr, rds, ride_id) ==
    LET driver_id == rds[ride_id].assigned_driver_id
        rds1 == [rds EXCEPT ![ride_id].status = "accepted"]
        drv1 == [drv EXCEPT ![driver_id].status = "going_to_pickup",
                            ![driver_id].current_ride_id = ride_id,
                            ![driver_id].pending_requests = remove(@, ride_id)]
        st == reject_others(drv1[driver_id].pending_requests, driver_id, drv1, rds1)
        drv2 == [st.drivers EXCEPT ![driver_id].pending_requests = <<>>]
        rider_id == rds[ride_id].rider_id
    IN IF rider_id \notin DOMAIN rdr
       THEN [drivers |-> drv2, riders |-> rdr, ride_requests |-> st.ride_requests,
             error |-> TRUE]
       ELSE [drivers |-> drv2,
             riders |-> update_rider_status(rdr, rider_id, ride_id),
             ride_requests |-> st.ride_requests,
             error |-> FALSE]

\* the reject branch that re-routes before it records the rejection
reject_ride_route_first(drv, rdr, rds, ride_id) ==
    LET driver_id == rds[ride_id].assigned_driver_id
        drv1 == [drv EXCEPT ![driver_id].pending_requests = remove(@, ride_id)]
        st == send_request_to_next_driver(ride_id, drv1, rds, MAX_DRIVER_REQUESTS)
    IN [drivers |-> st.drivers, riders |-> rdr,
        ride_requests |-> [st.ride_requests EXCEPT ![ride_id].rejected_by =
                                                       Append(@, driver_id)],
        error |-> FALSE]

\* the reject branch that leaves the offer in the driver's queue
reject_ride_keep_offer(drv, rdr, rds, ride_id) ==
    LET driver_id == rds[ride_id].assigned_driver_id
        rds1 == [rds EXCEPT ![ride_id].rejected_by = Append(@, driver_id)]
        st == send_request_to_next_driver(ride_id, drv, rds1, MAX_DRIVER_REQUESTS)
    IN [drivers |-> st.drivers, riders |-> rdr, ride_requests |-> st.ride_requests,
        error |-> FALSE]

\* routes.py:272-283: the reject branch
\* the reject branch that records the rejection and leaves it at that
reject_ride_no_reroute(drv, rdr, rds, ride_id) ==
    LET driver_id == rds[ride_id].assigned_driver_id
        rds1 == [rds EXCEPT ![ride_id].rejected_by = Append(@, driver_id)]
        drv1 == [drv EXCEPT ![driver_id].pending_requests = remove(@, ride_id)]
    IN [drivers |-> drv1, riders |-> rdr, ride_requests |-> rds1, error |-> FALSE]

reject_ride(drv, rdr, rds, ride_id) ==
    LET driver_id == rds[ride_id].assigned_driver_id
        rds1 == [rds EXCEPT ![ride_id].rejected_by = Append(@, driver_id)]
        drv1 == [drv EXCEPT ![driver_id].pending_requests = remove(@, ride_id)]
        st == send_request_to_next_driver(ride_id, drv1, rds1, MAX_DRIVER_REQUESTS)
    IN [drivers |-> st.drivers, riders |-> rdr, ride_requests |-> st.ride_requests,
        error |-> FALSE]

driver_respond_to_ride(ride_id, action) ==
    /\ LET err == respond_error(drivers, ride_requests, ride_id, action)
       IN IF err # 0
          THEN /\ Replied("respond", err)
               /\ UNCHANGED <<store, next_id>>
          ELSE LET st == IF lower(action) = "accept"
                         THEN accept_ride(drivers, riders, ride_requests, ride_id)
                         ELSE reject_ride(drivers, riders, ride_requests, ride_id)
               IN /\ drivers' = st.drivers
                  /\ riders' = st.riders
                  /\ ride_requests' = st.ride_requests
                  /\ Replied("respond", IF st.error THEN 500 ELSE 200)
                  /\ UNCHANGED <<current_tick, next_id>>

\* the completion that parks the driver as BUSY
complete_ride_driver_busy(st, ride_id, driver_id, rider_id) ==
    [st EXCEPT !.ride_requests[ride_id].status = "completed",
               !.drivers[driver_id].status = "busy",
               !.drivers[driver_id].current_ride_id = NONE,
               !.riders[rider_id].status = "completed",
               !.riders[rider_id].current_ride_id = NONE]

\* the completion that leaves the driver's current ride in place
complete_ride_keep_current(st, ride_id, driver_id, rider_id) ==
    [st EXCEPT !.ride_requests[ride_id].status = "completed",
               !.drivers[driver_id].status = "idle",
               !.riders[rider_id].status = "completed",
               !.riders[rider_id].current_ride_id = NONE]

\* routes.py:381-386: the driver stands at the dropoff location
\* the completion that also wipes the list of the drivers that rejected
complete_ride_forget_rejections(st, ride_id, driver_id, rider_id) ==
    [st EXCEPT !.ride_requests[ride_id].status = "completed",
               !.ride_requests[ride_id].rejected_by = <<>>,
               !.drivers[driver_id].status = "idle",
               !.drivers[driver_id].current_ride_id = NONE,
               !.riders[rider_id].status = "completed",
               !.riders[rider_id].current_ride_id = NONE]

\* the completion that frees the driver and the rider but leaves the ride
\* request ACCEPTED
complete_ride_still_accepted(st, ride_id, driver_id, rider_id) ==
    [st EXCEPT !.drivers[driver_id].status = "idle",
               !.drivers[driver_id].current_ride_id = NONE,
               !.riders[rider_id].status = "completed",
               !.riders[rider_id].current_ride_id = NONE]

complete_ride(st, ride_id, driver_id, rider_id) ==
    [st EXCEPT !.ride_requests[ride_id].status = "completed",
               !.drivers[driver_id].status = "idle",
               !.drivers[driver_id].current_ride_id = NONE,
               !.riders[rider_id].status = "completed",
               !.riders[rider_id].current_ride_id = NONE]

\* routes.py:352-390: the body of the tick loop for one ride request.
\* st is [drivers, riders, ride_requests, error]; drivers[...] and
\* riders[...] raise KeyError for a deleted entity (error = TRUE).
tick_ride(st, ride_id) ==
    LET ride == st.ride_requests[ride_id]
        driver_id == ride.assigned_driver_id
        rider_id == ride.rider_id
    IN IF ~(ride.status = "accepted" /\ driver_id # NONE) THEN st
       ELSE IF driver_id \notin DOMAIN st.drivers \/ rider_id \notin DOMAIN st.riders
       THEN [st EXCEPT !.error = TRUE]
       ELSE LET driver == st.drivers[driver_id]
            IN IF driver.status = "going_to_pickup"
               THEN LET location == IF driver.location # ride.pickup_location
                                    THEN move_driver_towards_location(driver.location,
                                                                      ride.pickup_location)
                                    ELSE driver.location
                    IN IF location = ride.pickup_location
                       THEN [st EXCEPT !.drivers[driver_id].location = location,
                                       !.drivers[driver_id].status = "driving_to_dest",
                                       !.riders[rider_id].status = "in_transit"]
                       ELSE [st EXCEPT !.drivers[driver_id].location = location]
               ELSE IF driver.status = "driving_to_dest"
               THEN LET location == IF driver.location # ride.dropoff_location
                                    THEN move_driver_towards_location(driver.location,
                                                                      ride.dropoff_location)
                                    ELSE driver.location
                    IN IF location = ride.dropoff_location
                       THEN complete_ride([st EXCEPT !.drivers[driver_id].location = location],
                                          ride_id, driver_id, rider_id)
                       ELSE [st EXCEPT !.drivers[driver_id].location = location]
               ELSE st

\* routes.py:351: for ride_id, ride in ride_requests.items(), left by the
\* first exception
RECURSIVE tick_loop(_, _)
tick_loop(order, st) ==
    IF order = <<>> \/ st.error THEN st
    ELSE tick_loop(Tail(order), tick_ride(st, Head(order)))

\* the advance counted only when the loop got through
tick_uncounted_on_error ==
    /\ LET st == tick_loop(insertion_order(DOMAIN ride_requests),
                           [drivers |-> drivers, riders |-> riders,
                            ride_requests |-> ride_requests, error |-> FALSE])
       IN /\ current_tick' = IF st.error THEN current_tick ELSE current_tick + 1
          /\ drivers' = st.drivers
          /\ riders' = st.riders
          /\ ride_requests' = st.ride_requests
          /\ response' = IF st.error THEN [op |-> "tick", code |-> 500, tick |-> NONE]
                         ELSE [op |-> "tick", code |-> 200, tick |-> current_tick + 1]
          /\ UNCHANGED next_id

tick ==
    /\ LET st == tick_loop(insertion_order(DOMAIN ride_requests),
                           [drivers |-> drivers, riders |-> riders,
                            ride_requests |-> ride_requests, error |-> FALSE])
       IN /\ current_tick' = current_tick + 1
          /\ drivers' = st.drivers
          /\ riders' = st.riders
          /\ ride_requests' = st.ride_requests
          /\ response' = IF st.error THEN [op |-> "tick", code |-> 500, tick |-> NONE]
                         ELSE [op |-> "tick", code |-> 200, tick |-> current_tick + 1]
          /\ UNCHANGED next_id

\* list(d.values()): the values in insertion order
values(d) ==
    LET order == insertion_order(DOMAIN d)
    IN [i \in DOMAIN order |-> d[order[i]]]

\* len([v for v in d.values() if v.status ...])
count(d, statuses) == Cardinality({k \in DOMAIN d : d[k].status \in statuses})

\* routes.py:403-454: reads the stores, writes nothing
get_state ==
    /\ response' =
           [op |-> "get_state", code |-> 200, tick |-> current_tick,
            drivers |-> values(drivers),
            riders |-> values(riders),
            rides |-> values(ride_requests),
            grid_size |-> GRID_SIZE,
            statistics |->
                [idle_drivers |-> count(drivers, {"idle"}),
                 busy_drivers |-> count(drivers, {"going_to_pickup", "driving_to_dest", "busy"}),
                 waiting_riders |-> count(riders, {"waiting"}),
                 assigned_riders |-> count(riders, {"assigned"}),
                 in_transit_riders |-> count(riders, {"in_transit"}),
                 completed_riders |-> count(riders, {"completed"}),
                 pending_rides |-> count(ride_requests, {"pending"}),
                 accepted_rides |-> count(ride_requests, {"accepted"}),
                 completed_rides |-> count(ride_requests, {"completed"}),
                 rejected_rides |-> count(ride_requests, {"rejected"})]]
    /\ UNCHANGED <<store, next_id>>

\* the stores emptied with the tick counter left where it was
clear_state_keep_tick ==
    /\ drivers' = <<>>
    /\ riders' = <<>>
    /\ ride_requests' = <<>>
    /\ current_tick' = current_tick
    /\ next_id' = [driver |-> 1, rider |-> 1, ride |-> 1]
    /\ response' = [op |-> "clear_state", code |-> 200, tick |-> current_tick]

\* Nothing refers to an old identifier once the stores are empty, so the
\* identifiers handed out afterwards are numbered from 1 again.
clear_state ==
    /\ drivers' = <<>>
    /\ riders' = <<>>
    /\ ride_requests' = <<>>
    /\ current_tick' = 0
    /\ next_id' = [driver |-> 1, rider |-> 1, ride |-> 1]
    /\ response' = [op |-> "clear_state", code |-> 200, tick |-> 0]

\* ------------------------------------------------------------------- Next
\* The k-th driver is created at x = 3 - k: the first one next to the pickup,
\* the second one on it, the third one as far from it as the first.
DriverLocations == {Loc(3 - next_id.driver, 0)}

\* The clients of this specification name entities that are in the stores and
\* send coordinates inside the grid; what the handlers answer to a respond
\* call depends on the state and is left to them.  A rider signs up when the
\* rider store is empty.
Next ==
    \/ \E location \in DriverLocations :
           next_id.driver <= MaxDrivers /\ create_driver(location)
    \/ \E driver_id \in DOMAIN drivers : delete_driver(driver_id)
    \/ \E trip \in RiderTrips :
           /\ next_id.rider <= MaxRiders
           /\ riders = <<>>
           /\ create_rider(trip[1], trip[2])
    \/ \E rider_id \in DOMAIN riders : delete_rider(rider_id)
    \/ \E rider_id \in DOMAIN riders :
           next_id.ride <= MaxRides /\ request_ride(rider_id)
    \/ \E ride_id \in DOMAIN ride_requests, action \in Actions :
           driver_respond_to_ride(ride_id, action)
    \/ current_tick < MaxTick /\ tick
    \/ clear_state

Spec == Init /\ [][Next]_vars

\* The same clients when nobody deletes a driver or a rider and a single
\* rider asks for all the rides.
NextNoDelete ==
    \/ \E location \in DriverLocations :
           next_id.driver <= MaxKeptDrivers /\ create_driver(location)
    \/ \E trip \in RiderTrips :
           riders = <<>> /\ create_rider(trip[1], trip[2])
    \/ \E rider_id \in DOMAIN riders :
           next_id.ride <= MaxKeptRides /\ request_ride(rider_id)
    \/ \E ride_id \in DOMAIN ride_requests, action \in Actions :
           driver_respond_to_ride(ride_id, action)
    \/ current_tick < MaxKeptTick /\ tick
    \/ clear_state

SpecNoDelete == Init /\ [][NextNoDelete]_vars

\* The offer-cap specification: enough ride requests to fill the queue of
\* every driver; the drivers are there before the first request, drivers and
\* riders stay, no ticks, and every driver answers the oldest offer in its
\* queue first; a single rider asks for all the rides.
\* the k-th driver starts at x = 2(k - 1): every new driver is nearer to the
\* pickup than the earlier ones
CapDriverLocations == {Loc(2 * (next_id.driver - 1), 0)}

OldestOffers ==
    {Head(drivers[d].pending_requests) :
         d \in {e \in DOMAIN drivers : drivers[e].pending_requests # <<>>}}

NextCap ==
    \/ \E location \in CapDriverLocations :
           /\ next_id.driver <= MaxCapDrivers
           /\ ride_requests = <<>>
           /\ create_driver(location)
    \/ \E trip \in CapRiderTrips :
           riders = <<>> /\ create_rider(trip[1], trip[2])
    \/ \E rider_id \in DOMAIN riders :
           next_id.ride <= MaxCapRides /\ request_ride(rider_id)
    \/ \E ride_id \in OldestOffers, action \in CapActions :
           driver_respond_to_ride(ride_id, action)

SpecCap == Init /\ [][NextCap]_vars

\* The movement specification: drivers and riders stay, the drivers are there
\* before the first request, and the clock keeps ticking as long as a ride is
\* under way (and MaxMoveTick times while none is).
\* the k-th driver starts at (2(k - 1), k - 1): the second one on the pickup
\* of the first trip
MoveDriverLocations == {Loc(2 * (next_id.driver - 1), next_id.driver - 1)}

MoveTickWanted ==
    \/ current_tick < MaxMoveTick
    \/ \E ride_id \in DOMAIN ride_requests : ride_requests[ride_id].status = "accepted"

MoveTick == MoveTickWanted /\ tick

\* The clock that keeps ticking: a step of this specification that advances
\* current_tick is a MoveTick step, and MoveTick is enabled exactly when
\* MoveTickWanted holds, so weak fairness of this action is weak fairness of
\* MoveTick.
MoveTickDue == MoveTickWanted /\ current_tick' = current_tick + 1

NextMove ==
    \/ \E location \in MoveDriverLocations :
           /\ next_id.driver <= MaxMoveDrivers
           /\ ride_requests = <<>>
           /\ create_driver(location)
    \/ \E trip \in MoveRiderTrips :
           riders = <<>> /\ create_rider(trip[1], trip[2])
    \/ \E rider_id \in DOMAIN riders :
           next_id.ride <= MaxMoveRides /\ request_ride(rider_id)
    \/ \E ride_id \in DOMAIN ride_requests, action \in MoveActions :
           driver_respond_to_ride(ride_id, action)
    \/ MoveTick

SpecMove == Init /\ [][NextMove]_vars /\ WF_current_tick(MoveTickDue)

\* The whole interface with clients that also get it wrong: locations on the
\* last row and column of the grid and just outside it, a trip that ends
\* where it starts, identifiers that were deleted or never handed out, and an
\* action that is neither accept nor reject.  A call that is going to be
\* refused may come at any time, the others while the bounds allow.
ApiDriverLocations == { Loc(GRID_SIZE - 1, 1), Loc(GRID_SIZE, 1), Loc(0, 0 - 1) }

NextApi ==
    \/ \E location \in ApiDriverLocations :
           /\ next_id.driver <= MaxApiDrivers \/ ~in_grid(location)
           /\ create_driver(location)
    \/ \E driver_id \in 1..next_id.driver : delete_driver(driver_id)
    \/ \E trip \in ApiRiderTrips :
           /\ \/ next_id.rider <= MaxApiRiders
              \/ ~in_grid(trip[1]) \/ ~in_grid(trip[2]) \/ trip[1] = trip[2]
           /\ create_rider(trip[1], trip[2])
    \/ \E rider_id \in 1..next_id.rider : delete_rider(rider_id)
    \/ \E rider_id \in 1..next_id.rider :
           next_id.ride <= MaxApiRides /\ request_ride(rider_id)
    \/ \E ride_id \in 1..next_id.ride, action \in ApiActions :
           driver_respond_to_ride(ride_id, action)
    \/ current_tick < MaxApiTick /\ tick
    \/ get_state
    \/ clear_state

SpecApi == Init /\ [][NextApi]_vars

\* Ties: the first driver stands two cells from the pickup (1, 1), every
\* later one a single cell from it, to its left and to its right in turn.
\* Drivers and riders stay, nobody ticks, and any driver may answer any of
\* its offers.
TieDriverLocations ==
    { IF next_id.driver = 1 THEN Loc(3, 1)
      ELSE IF next_id.driver % 2 = 0 THEN Loc(0, 1) ELSE Loc(2, 1) }

NextTie ==
    \/ \E location \in TieDriverLocations :
           next_id.driver <= MaxTieDrivers /\ create_driver(location)
    \/ \E trip \in TieRiderTrips :
           riders = <<>> /\ create_rider(trip[1], trip[2])
    \/ \E rider_id \in DOMAIN riders :
           next_id.ride <= MaxTieRides /\ request_ride(rider_id)
    \/ \E ride_id \in DOMAIN ride_requests, action \in TieActions :
           driver_respond_to_ride(ride_id, action)

SpecTie == Init /\ [][NextTie]_vars

\* Drivers that answer: the ride requests that wait in the queue of a driver
\* of the store are answered sooner or later, with an accept or a reject.
\* Drivers come and go, the rider stays, nobody ticks; an answer may also be
\* sent for a ride request that no driver holds.
Offers == UNION {Range(drivers[d].pending_requests) : d \in DOMAIN drivers}

\* A driver answers: the ride request of one of the offers changes, into an
\* ACCEPTED one or otherwise (routes.py:244-283 leave no answered ride
\* request as it was).
AnswerDue ==
    \E ride_id \in Offers :
        \/ ride_requests' = [ride_requests EXCEPT ![ride_id].status = "accepted"]
        \/ ride_requests'[ride_id] # ride_requests[ride_id]

NextAnswer ==
    \/ \E location \in DriverLocations :
           next_id.driver <= MaxAnswerDrivers /\ create_driver(location)
    \/ \E driver_id \in DOMAIN drivers : delete_driver(driver_id)
    \/ \E trip \in RiderTrips :
           riders = <<>> /\ create_rider(trip[1], trip[2])
    \/ \E rider_id \in DOMAIN riders :
           next_id.ride <= MaxAnswerRides /\ request_ride(rider_id)
    \/ \E ride_id \in DOMAIN ride_requests, action \in AnswerActions :
           driver_respond_to_ride(ride_id, action)

SpecAnswer == Init /\ [][NextAnswer]_vars /\ WF_ride_requests(AnswerDue)

\* The distance function on its own: a call with any two locations of a
\* corner of the grid and of its last row and column, then its result.
DistanceGrid ==
    LET coordinates == (0..MaxCoord) \cup {GRID_SIZE - 1}
    IN {Loc(x, y) : x \in coordinates, y \in coordinates}

InitDistance ==
    /\ drivers = <<>>
    /\ riders = <<>>
    /\ ride_requests = <<>>
    /\ current_tick = 0
    /\ next_id = [driver |-> 1, rider |-> 1, ride |-> 1]
    /\ response \in {[op |-> "call", location1 |-> a, location2 |-> b] :
                         a \in DistanceGrid, b \in DistanceGrid}

distance_call ==
    /\ response.op = "call"
    /\ response' = [op |-> "calculate_euclidean_distance",
                    location1 |-> response.location1,
                    location2 |-> response.location2,
                    distance |-> calculate_euclidean_distance(response.location1,
                                                              response.location2)]
    /\ UNCHANGED <<store, next_id>>

NextDistance == distance_call

SpecDistance == InitDistance /\ [][NextDistance]_vars

\* ------------------------------------------------------------ properties
Rides == DOMAIN ride_requests

\* C1 as stated: for every ride request, assigned_driver_id is set if and
\* only if the status is PENDING or ACCEPTED.
C1_AssignedIffPendingOrAccepted ==
    \A r \in Rides :
        (ride_requests[r].assigned_driver_id # NONE)
            <=> (ride_requests[r].status \in {"pending", "accepted"})

\* C1 amended: for every ride request, assigned_driver_id is set if and only
\* if the status is PENDING, ACCEPTED or COMPLETED (a completed ride keeps its
\* driver); a REJECTED request has no assigned driver.
C1_AssignedIffNotRejected ==
    \A r \in Rides :
        (ride_requests[r].assigned_driver_id # NONE)
            <=> (ride_requests[r].status \in {"pending", "accepted", "completed"})

\* a tick has completed a ride that both drivers had been offered, and its
\* driver has been deleted since
C1_Witness ==
    \E r \in Rides :
        /\ ride_requests[r].status = "completed"
        /\ ride_requests[r].rejected_by # <<>>
        /\ ride_requests[r].assigned_driver_id \notin DOMAIN drivers \cup {NONE}

\* C2: for every rider, current_ride_id is set if and only if the status is
\* ASSIGNED or IN_TRANSIT.
C2_RiderCurrentRideIffEngaged ==
    \A p \in DOMAIN riders :
        (riders[p].current_ride_id # NONE)
            <=> (riders[p].status \in {"assigned", "in_transit"})

\* C3: for every driver, current_ride_id is set if and only if the status is
\* GOING_TO_PICKUP or DRIVING_TO_DEST.
C3_DriverCurrentRideIffEngaged ==
    \A d \in DOMAIN drivers :
        (drivers[d].current_ride_id # NONE)
            <=> (drivers[d].status \in {"going_to_pickup", "driving_to_dest"})

\* a tick has just completed a ride: its driver stands at the dropoff, IDLE
\* again and without a current ride
C3_Witness ==
    /\ response.op = "tick"
    /\ \E r \in Rides :
           /\ ride_requests[r].status = "completed"
           /\ ride_requests[r].assigned_driver_id \in DOMAIN drivers
           /\ drivers[ride_requests[r].assigned_driver_id].status = "idle"
           /\ drivers[ride_requests[r].assigned_driver_id].current_ride_id = NONE
           /\ drivers[ride_requests[r].assigned_driver_id].location
                  = ride_requests[r].dropoff_location

\* C4: every driver's pending-offer queue has at most MAX_DRIVER_REQUESTS
\* entries.
C4_QueueWithinCap ==
    \A d \in DOMAIN drivers : Len(drivers[d].pending_requests) <= MAX_DRIVER_REQUESTS

\* a re-routed request ended REJECTED although an IDLE driver that had not
\* rejected it was there: that driver's queue was at the cap
C4_Witness ==
    \E d \in DOMAIN drivers, r \in Rides :
        /\ Len(drivers[d].pending_requests) = MAX_DRIVER_REQUESTS
        /\ drivers[d].status = "idle"
        /\ ride_requests[r].status = "rejected"
        /\ ride_requests[r].rejected_by # <<>>
        /\ d \notin Range(ride_requests[r].rejected_by)

\* C5: a ride request's status changes only along PENDING -> ACCEPTED,
\* PENDING -> REJECTED or ACCEPTED -> COMPLETED, the last one in a tick only;
\* REJECTED and COMPLETED never change.
C5_StatusTransitions ==
    [][\A r \in Rides \cap DOMAIN ride_requests' :
           LET a == ride_requests[r].status
               b == ride_requests'[r].status
           IN a # b =>
                  /\ <<a, b>> \in {<<"pending", "accepted">>, <<"pending", "rejected">>,
                                   <<"accepted", "completed">>}
                  /\ (a = "accepted" => response'.op = "tick")]_vars

\* a ride went PENDING -> ACCEPTED -> COMPLETED and has then lived through
\* the deletion of its rider and a respond call
C5_Witness ==
    /\ response.op = "respond"
    /\ \E r \in Rides : /\ ride_requests[r].status = "completed"
                        /\ ride_requests[r].rider_id \notin DOMAIN riders

AcceptActions == {a \in Actions : lower(a) = "accept"}

\* C6: after driver D successfully accepts R, D's queue is empty and every
\* other request that was in D's queue has D in rejected_by and is either
\* PENDING with an assigned driver other than D or REJECTED.
C6_AcceptFanOut ==
    [][\A r \in Rides, a \in AcceptActions :
           (/\ response'.op = "respond"
            /\ response'.code = 200
            /\ driver_respond_to_ride(r, a))
           => LET D == ride_requests[r].assigned_driver_id
              IN /\ drivers'[D].pending_requests = <<>>
                 /\ \A o \in Range(drivers[D].pending_requests) \ {r} :
                        /\ D \in Range(ride_requests'[o].rejected_by)
                        /\ \/ /\ ride_requests'[o].status = "pending"
                              /\ ride_requests'[o].assigned_driver_id \notin {D, NONE}
                           \/ ride_requests'[o].status = "rejected"]_vars

\* a driver has accepted one of its two offers; the other one carries the
\* driver in rejected_by and waits in the queue of the second driver
C6_Witness ==
    /\ response.op = "respond"
    /\ response.code = 200
    /\ \E d \in DOMAIN drivers, o \in Rides :
           /\ drivers[d].status = "going_to_pickup"
           /\ drivers[d].pending_requests = <<>>
           /\ ride_requests[o].rejected_by = <<d>>
           /\ ride_requests[o].status = "pending"
           /\ ride_requests[o].assigned_driver_id \in DOMAIN drivers \ {d}
           /\ o \in Range(drivers[ride_requests[o].assigned_driver_id].pending_requests)

\* C7: a successful accept of PENDING request R by its assigned IDLE driver D
\* sets R ACCEPTED (driver still D), D GOING_TO_PICKUP with current ride R,
\* the rider ASSIGNED with current ride R, and leaves D's location alone.
C7_AcceptEffects ==
    [][\A r \in Rides, a \in AcceptActions :
           (/\ response'.op = "respond"
            /\ response'.code = 200
            /\ driver_respond_to_ride(r, a))
           => LET D == ride_requests[r].assigned_driver_id
                  p == ride_requests[r].rider_id
              IN /\ ride_requests[r].status = "pending"
                 /\ drivers[D].status = "idle"
                 /\ ride_requests'[r].status = "accepted"
                 /\ ride_requests'[r].assigned_driver_id = D
                 /\ drivers'[D].status = "going_to_pickup"
                 /\ drivers'[D].current_ride_id = r
                 /\ drivers'[D].location = drivers[D].location
                 /\ riders'[p].status = "assigned"
                 /\ riders'[p].current_ride_id = r]_vars

\* an accept has just succeeded for a rider that a tick had already set to
\* IN_TRANSIT or COMPLETED for an earlier ride
C7_Witness ==
    /\ response.op = "respond"
    /\ response.code = 200
    /\ \E r \in Rides, q \in Rides :
           /\ q # r
           /\ ride_requests[q].status \in {"accepted", "completed"}
           /\ ride_requests[q].rider_id = ride_requests[r].rider_id
           /\ ride_requests[r].status = "accepted"
           /\ ride_requests[r].assigned_driver_id \in DOMAIN drivers
           /\ drivers[ride_requests[r].assigned_driver_id].status = "going_to_pickup"
           /\ drivers[ride_requests[r].assigned_driver_id].current_ride_id = r
           /\ ride_requests[r].rider_id \in DOMAIN riders
           /\ riders[ride_requests[r].rider_id].current_ride_id = r

\* C8: respond_to_ride answers 400 and changes nothing when the ride is not
\* PENDING, when its assigned driver is unset or not in the store, when the
\* action is neither accept nor reject, and when the action is accept and the
\* assigned driver is not IDLE: a respond step that does anything else is not
\* the step of a call in one of these cases.
C8_RespondValidation ==
    [][response'.op = "respond" =>
           \/ /\ response'.code = 400
              /\ UNCHANGED store
           \/ \A r \in Rides, a \in Actions :
                  ~(/\ \/ ride_requests[r].status # "pending"
                       \/ ride_requests[r].assigned_driver_id = NONE
                       \/ ride_requests[r].assigned_driver_id \notin DOMAIN drivers
                       \/ lower(a) \notin {"accept", "reject"}
                       \/ /\ lower(a) = "accept"
                          /\ drivers[ride_requests[r].assigned_driver_id].status # "idle"
                    /\ driver_respond_to_ride(r, a))]_vars

\* a respond call was answered 400 for a PENDING ride that waits for a
\* deleted driver while an IDLE driver is there
C8_Witness ==
    /\ response.op = "respond"
    /\ response.code = 400
    /\ \E r \in Rides : /\ ride_requests[r].status = "pending"
                        /\ ride_requests[r].assigned_driver_id \notin DOMAIN drivers
    /\ \E d \in DOMAIN drivers : drivers[d].status = "idle"

\* C9: a respond_to_ride call that ends in an error leaves every driver,
\* rider, ride request and the tick counter as they were.
C9_RespondAllOrNothing ==
    [][(response'.op = "respond" /\ response'.code >= 400) => UNCHANGED store]_vars

\* C10: advance_tick succeeds in every reachable state, returns the
\* incremented tick number, and advances every ACCEPTED request whose driver
\* is in the store (one whose driver was deleted is skipped).
C10_TickSucceeds ==
    [][response'.op = "tick" =>
           /\ response'.code = 200
           /\ response'.tick = current_tick + 1
           /\ \A r \in Rides :
                  (/\ ride_requests[r].status = "accepted"
                   /\ ride_requests[r].assigned_driver_id \in DOMAIN drivers)
                  => drivers'[ride_requests[r].assigned_driver_id]
                         # drivers[ride_requests[r].assigned_driver_id]]_vars

RejectActions == {a \in Actions : lower(a) = "reject"}

\* C11: a successful reject of PENDING request R by its assigned driver D
\* appends D to R.rejected_by, takes R out of D's queue and leaves D's other
\* offers and D's status alone; afterwards R is PENDING with an assigned driver
\* other than D, or REJECTED without an assigned driver.
C11_RejectEffects ==
    [][\A r \in Rides, a \in RejectActions :
           (/\ response'.op = "respond"
            /\ response'.code = 200
            /\ driver_respond_to_ride(r, a))
           => LET D == ride_requests[r].assigned_driver_id
              IN /\ ride_requests[r].status = "pending"
                 /\ ride_requests'[r].rejected_by = Append(ride_requests[r].rejected_by, D)
                 /\ r \in Range(drivers[D].pending_requests)
                 /\ drivers'[D].pending_requests
                        = SelectSeq(drivers[D].pending_requests, LAMBDA o : o # r)
                 /\ drivers'[D].status = drivers[D].status
                 /\ \/ /\ ride_requests'[r].status = "pending"
                       /\ ride_requests'[r].assigned_driver_id \notin {D, NONE}
                    \/ /\ ride_requests'[r].status = "rejected"
                       /\ ride_requests'[r].assigned_driver_id = NONE]_vars

\* a driver has rejected one of its two offers: it is IDLE and still holds the
\* other one, the rejected request waits in the queue of the second driver
C11_Witness ==
    /\ response.op = "respond"
    /\ response.code = 200
    /\ \E d \in DOMAIN drivers, r \in Rides :
           /\ ride_requests[r].rejected_by = <<d>>
           /\ ride_requests[r].status = "pending"
           /\ ride_requests[r].assigned_driver_id \in DOMAIN drivers \ {d}
           /\ drivers[d].status = "idle"
           /\ drivers[d].pending_requests # <<>>
           /\ r \notin Range(drivers[d].pending_requests)

\* The drivers a routing step may pick, read off the state before the call:
\* IDLE, not excluded, and with room in the queue once the load offers that
\* the same call has already appended are counted.
Eligible(excluded, load(_)) ==
    {d \in DOMAIN drivers :
         /\ drivers[d].status = "idle"
         /\ d \notin excluded
         /\ Len(drivers[d].pending_requests) + load(d) < MAX_DRIVER_REQUESTS}

NoLoad(d) == 0

\* after the call request r waits, PENDING, in the queue of a driver of E that
\* no driver of E beats in distance to the pickup
RoutedToClosest(r, E) ==
    LET d == ride_requests'[r].assigned_driver_id
        pickup == ride_requests'[r].pickup_location
    IN /\ ride_requests'[r].status = "pending"
       /\ d \in E
       /\ r \in Range(drivers'[d].pending_requests)
       /\ \A e \in E : calculate_euclidean_distance(drivers[d].location, pickup)
                          <= calculate_euclidean_distance(drivers[e].location, pickup)

\* the offers of driver D other than r, in queue order
OtherOffers(D, r) == SelectSeq(drivers[D].pending_requests, LAMBDA o : o # r)

\* C12: whenever a request is routed (at request_ride, on reject, in the
\* fan-out of an accept) while at least one driver is eligible, it is appended
\* to the queue of an eligible driver at minimal distance to its pickup,
\* assigned_driver_id is that driver and the status is PENDING.
C12_RoutedToClosest ==
    [][/\ (response'.op = "request_ride" /\ response'.code = 200)
           => LET E == Eligible({}, NoLoad)
              IN E # {} => RoutedToClosest(next_id.ride, E)
       /\ (response'.op = "respond" /\ response'.code = 200)
           => \A r \in Rides :
                  LET D == ride_requests[r].assigned_driver_id
                      others == OtherOffers(D, r)
                  IN /\ (\E a \in RejectActions : driver_respond_to_ride(r, a))
                         => LET E == Eligible(Range(ride_requests[r].rejected_by) \cup {D},
                                              NoLoad)
                            IN E # {} => RoutedToClosest(r, E)
                     /\ (\E a \in AcceptActions : driver_respond_to_ride(r, a))
                         => \A i \in DOMAIN others :
                                LET earlier(d) ==
                                        Cardinality({j \in 1..(i - 1) :
                                            ride_requests'[others[j]].assigned_driver_id = d})
                                    E == Eligible(Range(ride_requests[others[i]].rejected_by)
                                                      \cup {D}, earlier)
                                IN E # {} => RoutedToClosest(others[i], E)]_vars

\* request_ride has just routed a request to the nearer of two eligible
\* drivers, which is neither the first in the store nor the one with the
\* shorter queue
C12_Witness ==
    /\ response.op = "request_ride"
    /\ \E d \in DOMAIN drivers, e \in DOMAIN drivers :
           LET r == next_id.ride - 1
           IN /\ r \in Rides
              /\ ride_requests[r].status = "pending"
              /\ ride_requests[r].assigned_driver_id = d
              /\ e < d
              /\ drivers[e].status = "idle"
              /\ Len(drivers[e].pending_requests) + 1 < Len(drivers[d].pending_requests)
              /\ calculate_euclidean_distance(drivers[d].location,
                                              ride_requests[r].pickup_location)
                     < calculate_euclidean_distance(drivers[e].location,
                                                    ride_requests[r].pickup_location)

\* after the call request r is REJECTED and has no assigned driver
EndsRejected(r) ==
    /\ ride_requests'[r].status = "rejected"
    /\ ride_requests'[r].assigned_driver_id = NONE

\* C13: whenever a request is routed and no driver is eligible, it becomes
\* REJECTED with assigned_driver_id unset, and a REJECTED request stays
\* REJECTED and unassigned through every later call (tick, driver creation, a
\* driver turning IDLE again, respond).
C13_RejectedIsTerminal ==
    [][/\ (response'.op = "request_ride" /\ response'.code = 200)
           => (Eligible({}, NoLoad) = {} => EndsRejected(next_id.ride))
       /\ (response'.op = "respond" /\ response'.code = 200)
           => \A r \in Rides :
                  LET D == ride_requests[r].assigned_driver_id
                      others == OtherOffers(D, r)
                  IN /\ (\E a \in RejectActions : driver_respond_to_ride(r, a))
                         => (Eligible(Range(ride_requests[r].rejected_by) \cup {D}, NoLoad) = {}
                                => EndsRejected(r))
                     /\ (\E a \in AcceptActions : driver_respond_to_ride(r, a))
                         => \A i \in DOMAIN others :
                                LET earlier(d) ==
                                        Cardinality({j \in 1..(i - 1) :
                                            ride_requests'[others[j]].assigned_driver_id = d})
                                IN Eligible(Range(ride_requests[others[i]].rejected_by)
                                                \cup {D}, earlier) = {}
                                       => EndsRejected(others[i])
       /\ \A r \in Rides \cap DOMAIN ride_requests' :
              ride_requests[r].status = "rejected"
                  => /\ ride_requests[r].assigned_driver_id = NONE
                     /\ ride_requests'[r] = ride_requests[r]
                     /\ \A d \in DOMAIN drivers' :
                            r \notin Range(drivers'[d].pending_requests)]_vars

\* a request that the fan-out of an accept left REJECTED has since seen its
\* driver complete the accepted ride and turn IDLE again, and a respond call
\* for it has been refused
C13_Witness ==
    /\ response.op = "respond"
    /\ response.code = 400
    /\ \E r \in Rides, q \in Rides :
           /\ ride_requests[r].status = "rejected"
           /\ ride_requests[r].assigned_driver_id = NONE
           /\ ride_requests[q].status = "completed"
           /\ ride_requests[q].assigned_driver_id \in Range(ride_requests[r].rejected_by)
           /\ drivers[ride_requests[q].assigned_driver_id].status = "idle"
           /\ drivers[ride_requests[q].assigned_driver_id].pending_requests = <<>>

\* the arguments find_available_drivers is checked on, for the driver store
\* of every reachable state: pickups on either side of the drivers and between
\* them, every set of excluded drivers, the cap of the program and a cap of 1
ProbePickups == {Loc(8, 0), Loc(0, 1), Loc(1, 0)}

ProbeCaps == {1, MAX_DRIVER_REQUESTS}

\* the order of the Euclidean distances is the order of their squares
SquaredDistance(a, b) == (a.x - b.x) * (a.x - b.x) + (a.y - b.y) * (a.y - b.y)

\* C14: find_available_drivers returns exactly the drivers that are IDLE, not
\* excluded and below the cap, each once, in order of non-decreasing distance
\* to the pickup.
C14_EligibleDrivers ==
    \A pickup \in ProbePickups, excluded \in SUBSET DOMAIN drivers, cap \in ProbeCaps :
        LET found == find_available_drivers(drivers, pickup, excluded, cap)
        IN /\ {found[i][1] : i \in DOMAIN found}
                  = {d \in DOMAIN drivers : /\ drivers[d].status = "idle"
                                            /\ d \notin excluded
                                            /\ Len(drivers[d].pending_requests) < cap}
           /\ \A i, j \in DOMAIN found : found[i][1] = found[j][1] => i = j
           /\ \A i, j \in DOMAIN found :
                  i < j => SquaredDistance(drivers[found[i][1]].location, pickup)
                               <= SquaredDistance(drivers[found[j][1]].location, pickup)

\* both drivers are IDLE, the nearer one holds a full queue and the other one
\* a single offer: the list for the pickup of the rider is the farther driver
\* alone and the list for a cap of 1 is empty; a request has been rejected
\* by a driver
C14_Witness ==
    /\ Cardinality(DOMAIN drivers) = 2
    /\ \A d \in DOMAIN drivers : drivers[d].status = "idle"
    /\ Len(find_available_drivers(drivers, Loc(8, 0), {}, MAX_DRIVER_REQUESTS)) = 1
    /\ find_available_drivers(drivers, Loc(8, 0), {}, MAX_DRIVER_REQUESTS)[1][1] = 1
    /\ find_available_drivers(drivers, Loc(8, 0), {}, 1) = <<>>
    /\ \E r \in Rides : ride_requests[r].rejected_by # <<>>

\* sequence s is an initial segment of sequence t
IsPrefix(s, t) == Len(s) <= Len(t) /\ SubSeq(t, 1, Len(s)) = s

\* C15: for every ride request rejected_by only grows (no call but
\* clear_state takes an entry away), and after every call no request is
\* assigned to, or waits in the queue of, a driver that is in its rejected_by.
C15_RejectedByGrows ==
    [][/\ \A r \in Rides :
              \/ response'.op = "clear_state"
              \/ /\ r \in DOMAIN ride_requests'
                 /\ IsPrefix(ride_requests[r].rejected_by, ride_requests'[r].rejected_by)
       /\ \A r \in DOMAIN ride_requests' :
              /\ ride_requests'[r].assigned_driver_id
                     \notin Range(ride_requests'[r].rejected_by)
              /\ \A d \in DOMAIN drivers' :
                     r \in Range(drivers'[d].pending_requests)
                         => d \notin Range(ride_requests'[r].rejected_by)]_vars

\* two drivers have rejected the request in turn, and one of them has been
\* deleted since
C15_Witness ==
    /\ response.op = "delete_driver"
    /\ \E r \in Rides :
           /\ Len(ride_requests[r].rejected_by) = 2
           /\ ride_requests[r].status = "rejected"
           /\ \E d \in Range(ride_requests[r].rejected_by) : d \notin DOMAIN drivers
           /\ \E d \in Range(ride_requests[r].rejected_by) : d \in DOMAIN drivers

\* max(|dx|, |dy|)
Chebyshev(a, b) == Max(Abs(a.x - b.x), Abs(a.y - b.y))

Engaged == {d \in DOMAIN drivers : drivers[d].status \in {"going_to_pickup", "driving_to_dest"}}

\* where the tick sends engaged driver d
Waypoint(d) ==
    IF drivers[d].status = "going_to_pickup"
    THEN ride_requests[drivers[d].current_ride_id].pickup_location
    ELSE ride_requests[drivers[d].current_ride_id].dropoff_location

\* the number of movement steps that take a driver from location to target
RECURSIVE StepsTo(_, _)
StepsTo(location, target) ==
    IF location = target THEN 0
    ELSE 1 + StepsTo(move_driver_towards_location(location, target), target)

\* coordinate b lies one unit from coordinate a towards coordinate w
OneCloser(a, b, w) ==
    IF a < w THEN b = a + 1 ELSE IF a > w THEN b = a - 1 ELSE b = a

RECURSIVE after_ticks(_, _)
after_ticks(st, n) ==
    IF n = 0 THEN st
    ELSE after_ticks(tick_loop(insertion_order(DOMAIN st.ride_requests), st), n - 1)

Now == [drivers |-> drivers, riders |-> riders, ride_requests |-> ride_requests,
        error |-> FALSE]

\* the ACCEPTED rides whose driver is on its way to the pickup
RidesToPickup ==
    {r \in Rides : /\ ride_requests[r].status = "accepted"
                   /\ drivers[ride_requests[r].assigned_driver_id].status = "going_to_pickup"
                   /\ drivers[ride_requests[r].assigned_driver_id].current_ride_id = r}

\* the rides of the rider of r that the tick loop handles after r
LaterRides(r) ==
    {q \in Rides : q > r /\ ride_requests[q].rider_id = ride_requests[r].rider_id}

\* Ride r, whose driver D is on its way to the pickup, reaches the pickup
\* (D DRIVING_TO_DEST) after exactly N ticks and is COMPLETED (D IDLE) after
\* exactly M further ticks.  The rider is IN_TRANSIT after the first and
\* COMPLETED after the second of the two ticks; with overwritten allowed, a
\* ride of the same rider that the same tick handles later and moves to its
\* own next stage may have set the rider's status last.
OnSchedule(r, N, M, overwritten) ==
    LET D == ride_requests[r].assigned_driver_id
        p == ride_requests[r].rider_id
        picked == after_ticks(Now, N)
        done == after_ticks(Now, N + M)
    IN /\ \A k \in 0..(N - 1) :
              after_ticks(Now, k).drivers[D].status = "going_to_pickup"
       /\ picked.drivers[D].status = "driving_to_dest"
       /\ picked.drivers[D].location = ride_requests[r].pickup_location
       /\ \/ picked.riders[p].status = "in_transit"
          \/ /\ overwritten
             /\ \E q \in LaterRides(r) :
                    /\ picked.ride_requests[q].status = "completed"
                    /\ after_ticks(Now, N - 1).ride_requests[q].status = "accepted"
       /\ \A k \in 0..(N + M - 1) :
              after_ticks(Now, k).ride_requests[r].status = "accepted"
       /\ done.ride_requests[r].status = "completed"
       /\ done.drivers[D].status = "idle"
       /\ done.drivers[D].location = ride_requests[r].dropoff_location
       /\ \/ done.riders[p].status = "completed"
          \/ /\ overwritten
             /\ \E q \in LaterRides(r) :
                    LET E == ride_requests[q].assigned_driver_id
                    IN /\ E \in DOMAIN drivers
                       /\ done.drivers[E].status = "driving_to_dest"
                       /\ after_ticks(Now, N + M - 1).drivers[E].status = "going_to_pickup"

Orders(S) ==
    {o \in [1..Cardinality(S) -> S] : \A i, j \in DOMAIN o : o[i] = o[j] => i = j}

\* C18: in every reachable state the stores after a tick are the same for
\* every order in which the tick loop visits the ride requests.
C18_TickOrderIndependent ==
    \A o \in Orders(Rides) :
        tick_loop(o, Now) = tick_loop(insertion_order(Rides), Now)

\* the ticks within which ACCEPTED ride r is due: the way of its driver to
\* the pickup, the way from the pickup to the dropoff, and one tick
TicksDue(r) ==
    Chebyshev(drivers[ride_requests[r].assigned_driver_id].location,
              ride_requests[r].pickup_location)
        + Chebyshev(ride_requests[r].pickup_location, ride_requests[r].dropoff_location)
        + 1

\* C19: while the clock keeps ticking and nobody is deleted, every ACCEPTED
\* ride is eventually COMPLETED, and it is COMPLETED once as many ticks have
\* passed as the Chebyshev distances driver -> pickup and pickup -> dropoff
\* add up to, plus one.
C19_AcceptedIsCompleted ==
    /\ \A r \in 1..MaxMoveRides :
           (r \in Rides /\ ride_requests[r].status = "accepted")
               ~> (r \in Rides /\ ride_requests[r].status = "completed")
    /\ [](\A r \in Rides :
               ride_requests[r].status = "accepted"
                   => after_ticks(Now, TicksDue(r)).ride_requests[r].status = "completed")

\* the second ride of a rider has been completed by the driver that started
\* farther from the pickup, after the first one
C19_Witness ==
    /\ response.op = "tick"
    /\ \E r \in Rides, q \in Rides :
           /\ q < r
           /\ ride_requests[q].status = "completed"
           /\ ride_requests[r].status = "completed"
           /\ ride_requests[r].rejected_by # <<>>
           /\ ride_requests[r].assigned_driver_id # ride_requests[q].assigned_driver_id

\* no driver has answered an offer yet: every driver is IDLE and every request
\* is as request_ride left it
NobodyResponded ==
    /\ \A d \in DOMAIN drivers : drivers[d].status = "idle"
    /\ \A r \in Rides : /\ ride_requests[r].rejected_by = <<>>
                         /\ ride_requests[r].status \in {"pending", "rejected"}

\* the drivers whose queue is below the cap
BelowCap == {d \in DOMAIN drivers : Len(drivers[d].pending_requests) < MAX_DRIVER_REQUESTS}

\* C20: while all drivers are IDLE and none has responded, request_ride
\* appends the new request to the queue of the nearest driver whose queue is
\* below the cap, so the nearest driver is filled up to exactly the cap before
\* the next-nearest gets an offer; once every queue is at the cap the new
\* request is created REJECTED.
C20_NearestBelowCap ==
    [][(/\ response'.op = "request_ride"
        /\ response'.code = 200
        /\ NobodyResponded)
       => LET r == next_id.ride
              pickup == ride_requests'[r].pickup_location
          IN /\ BelowCap # {}
                 => LET d == ride_requests'[r].assigned_driver_id
                    IN /\ d \in BelowCap
                       /\ \A e \in BelowCap :
                              SquaredDistance(drivers[d].location, pickup)
                                  <= SquaredDistance(drivers[e].location, pickup)
                       /\ ride_requests'[r].status = "pending"
                       /\ drivers' = [drivers EXCEPT ![d].pending_requests = Append(@, r)]
                       /\ \A e \in DOMAIN drivers :
                              SquaredDistance(drivers[e].location, pickup)
                                  < SquaredDistance(drivers[d].location, pickup)
                                  => Len(drivers[e].pending_requests) = MAX_DRIVER_REQUESTS
             /\ BelowCap = {}
                 => /\ ride_requests'[r].status = "rejected"
                    /\ ride_requests'[r].assigned_driver_id = NONE
                    /\ drivers' = drivers]_vars

\* nobody has responded, the nearer driver holds exactly the cap and the
\* request after those went to the farther driver
C20_Witness ==
    /\ response.op = "request_ride"
    /\ NobodyResponded
    /\ \E d \in DOMAIN drivers, e \in DOMAIN drivers :
           LET r == next_id.ride - 1
           IN /\ r \in Rides
              /\ ride_requests[r].assigned_driver_id = e
              /\ drivers[e].pending_requests = <<r>>
              /\ Len(drivers[d].pending_requests) = MAX_DRIVER_REQUESTS
              /\ SquaredDistance(drivers[d].location, ride_requests[r].pickup_location)
                     < SquaredDistance(drivers[e].location, ride_requests[r].pickup_location)

\* C21: clear_state, whatever the state it is called in, leaves the driver,
\* rider and ride-request stores empty and the tick counter at 0, and a
\* get_state that comes right after it reports tick 0 and 0 for every
\* per-status count.
C21_ClearStateEmpties ==
    [][ /\ response'.op = "clear_state" =>
               /\ drivers' = <<>> /\ riders' = <<>> /\ ride_requests' = <<>>
               /\ current_tick' = 0
        /\ (response.op = "clear_state" /\ response'.op = "get_state") =>
               /\ response'.code = 200
               /\ response'.tick = 0
               /\ \A k \in DOMAIN response'.statistics : response'.statistics[k] = 0
      ]_vars

\* clear_state has just answered: only that handler leaves this response
C21_Witness ==
    /\ response = [op |-> "clear_state", code |-> 200, tick |-> 0]
    /\ drivers = <<>> /\ riders = <<>> /\ ride_requests = <<>>
    /\ current_tick = 0

\* C22: every advance of the tick adds exactly 1 to the tick counter, the
\* failing ones included; create_driver, create_rider, delete_driver,
\* delete_rider, request_ride, the answer of a driver and get_state leave the
\* counter alone, whatever they answer; the counter only goes down in
\* clear_state, which sets it to 0.
C22_TickCounterFrame ==
    [][ /\ response'.op = "tick" => current_tick' = current_tick + 1
        /\ response'.op \in {"create_driver", "create_rider", "delete_driver",
                             "delete_rider", "request_ride", "respond", "get_state"}
               => current_tick' = current_tick
        /\ current_tick' < current_tick
               => response'.op = "clear_state" /\ current_tick' = 0
      ]_vars

\* an advance of the tick has failed on a deleted entity and was counted
C22_Witness ==
    /\ response.op = "tick"
    /\ response.code = 500
    /\ current_tick = 1

\* a coordinate below 0 or above GRID_SIZE - 1
OutsideGrid(l) ==
    ~(l.x \in 0..(GRID_SIZE - 1) /\ l.y \in 0..(GRID_SIZE - 1))

\* new is old with exactly one more key, whose value is entity
AddsOne(old, new, entity) ==
    /\ Cardinality(DOMAIN new) = Cardinality(DOMAIN old) + 1
    /\ \A k \in DOMAIN old : k \in DOMAIN new /\ new[k] = old[k]
    /\ \A k \in DOMAIN new \ DOMAIN old : new[k] = entity

\* C23: create_driver with a coordinate outside 0..GRID_SIZE-1 answers 400
\* and changes no store; so does create_rider with a pickup or a dropoff
\* outside the grid or with the pickup equal to the dropoff.  With valid
\* input create_driver adds exactly one driver, idle with an empty queue and
\* no current ride at the location sent, and create_rider exactly one rider,
\* waiting with no current ride and the trip sent; nothing else changes.
C23_CreateValidation ==
    [][ /\ response'.op = "create_driver" =>
               \A location \in ApiDriverLocations :
                   \/ IF OutsideGrid(location)
                      THEN response'.code = 400 /\ UNCHANGED store
                      ELSE /\ response'.code = 200
                           /\ AddsOne(drivers, drivers',
                                      [location |-> location, status |-> "idle",
                                       pending_requests |-> <<>>,
                                       current_ride_id |-> NONE])
                           /\ UNCHANGED <<riders, ride_requests, current_tick>>
                   \/ ~create_driver(location)
        /\ response'.op = "create_rider" =>
               \A trip \in ApiRiderTrips :
                   \/ IF OutsideGrid(trip[1]) \/ OutsideGrid(trip[2]) \/ trip[1] = trip[2]
                      THEN response'.code = 400 /\ UNCHANGED store
                      ELSE /\ response'.code = 200
                           /\ AddsOne(riders, riders',
                                      [pickup_location |-> trip[1],
                                       dropoff_location |-> trip[2],
                                       status |-> "waiting",
                                       current_ride_id |-> NONE])
                           /\ UNCHANGED <<drivers, ride_requests, current_tick>>
                   \/ ~create_rider(trip[1], trip[2])
      ]_vars

\* a driver stands on the last column of the grid and the last call, a
\* create_rider or a create_driver, was refused
C23_Witness ==
    /\ response.op \in {"create_driver", "create_rider"}
    /\ response.code = 400
    /\ \E d \in DOMAIN drivers : drivers[d].location.x = GRID_SIZE - 1
    /\ riders # <<>>

\* the call is refused with 404 and no store has changed
NotFound == response'.code = 404 /\ UNCHANGED store

\* C24: delete_driver, delete_rider, request_ride and the answer of a driver
\* called with an identifier that is not in the driver, rider, rider and
\* ride-request store respectively answer 404 and leave the drivers with
\* their queues, the riders, the ride requests and the tick counter as they
\* were; request_ride for an unknown rider creates no ride.
C24_UnknownIdentifier ==
    [][ /\ response'.op = "delete_driver" =>
               \A driver_id \in (1..next_id.driver) \ DOMAIN drivers :
                   NotFound \/ ~delete_driver(driver_id)
        /\ response'.op = "delete_rider" =>
               \A rider_id \in (1..next_id.rider) \ DOMAIN riders :
                   NotFound \/ ~delete_rider(rider_id)
        /\ response'.op = "request_ride" =>
               \A rider_id \in (1..next_id.rider) \ DOMAIN riders :
                   NotFound \/ ~request_ride(rider_id)
        /\ response'.op = "respond" =>
               \A ride_id \in (1..next_id.ride) \ DOMAIN ride_requests :
                   \A action \in ApiActions :
                       NotFound \/ ~driver_respond_to_ride(ride_id, action)
      ]_vars

\* a call has been refused with 404 while a driver holds the offer of a
\* pending ride request
C24_Witness ==
    /\ response.op \in {"delete_driver", "delete_rider", "request_ride", "respond"}
    /\ response.code = 404
    /\ \E r \in DOMAIN ride_requests :
           /\ ride_requests[r].status = "pending"
           /\ \E d \in DOMAIN drivers : r \in Range(drivers[d].pending_requests)

\* C25: no call other than clear_state removes a ride request, whatever its
\* status and whether or not its rider and its driver are still there; the
\* rider reference, the pickup and the dropoff of a ride request never change,
\* and at creation they are the requesting rider and that rider's pickup and
\* dropoff.
C25_RideRequestsKept ==
    [][ response'.op # "clear_state" =>
            /\ \A r \in DOMAIN ride_requests :
                   /\ r \in DOMAIN ride_requests'
                   /\ ride_requests'[r].rider_id = ride_requests[r].rider_id
                   /\ ride_requests'[r].pickup_location = ride_requests[r].pickup_location
                   /\ ride_requests'[r].dropoff_location = ride_requests[r].dropoff_location
            /\ \A r \in DOMAIN ride_requests' \ DOMAIN ride_requests :
                   LET rider_id == ride_requests'[r].rider_id
                   IN /\ response'.op = "request_ride"
                      /\ rider_id \in DOMAIN riders
                      /\ ride_requests'[r].pickup_location = riders[rider_id].pickup_location
                      /\ ride_requests'[r].dropoff_location = riders[rider_id].dropoff_location
      ]_vars

\* a completed ride request is still in the store with the trip it was
\* created with, after its rider and its driver were deleted
C25_Witness ==
    \E r \in DOMAIN ride_requests :
        /\ ride_requests[r].status = "completed"
        /\ ride_requests[r].rider_id \notin DOMAIN riders
        /\ ride_requests[r].assigned_driver_id \notin DOMAIN drivers
        /\ ride_requests[r].pickup_location = Loc(GRID_SIZE - 1, 0)
        /\ ride_requests[r].dropoff_location = Loc(GRID_SIZE - 2, 0)

\* C26: in every reachable state both coordinates of every driver are in
\* 0..GRID_SIZE-1; the ticks never move a driver off the grid.
C26_DriversInGrid ==
    \A d \in DOMAIN drivers :
        /\ drivers[d].location.x \in 0..(GRID_SIZE - 1)
        /\ drivers[d].location.y \in 0..(GRID_SIZE - 1)

\* a tick has moved a driver along the last column to a pickup in the
\* corner of the grid
C26_Witness ==
    /\ response.op = "tick"
    /\ \E d \in DOMAIN drivers :
           /\ drivers[d].status = "driving_to_dest"
           /\ drivers[d].location = Loc(GRID_SIZE - 1, 0)

\* C27: for every two grid locations a and b the distance from a to b is the
\* distance from b to a, and it is 0 exactly when a = b (on the squared
\* integer distance that the ordering of the drivers is based on).
C27_DistanceSymmetricAndDefinite ==
    response.op = "calculate_euclidean_distance" =>
        /\ response.distance =
               calculate_euclidean_distance(response.location2, response.location1)
        /\ response.distance = 0 <=> response.location1 = response.location2

\* the distance between two different locations of one row, one of them on
\* the last column, has been computed
C27_Witness ==
    /\ response.op = "calculate_euclidean_distance"
    /\ response.location1.x = GRID_SIZE - 1
    /\ response.location2.x = 0
    /\ response.location1.y = response.location2.y
    /\ response.distance = (GRID_SIZE - 1) * (GRID_SIZE - 1)

\* the tick takes the driver, now at location, onto target
Arrives(location, target) == Chebyshev(location, target) <= 1

\* C28: within one tick an accepted ride makes at most one phase step.  A
\* driver on its way to the pickup that reaches it, or is on it already, is
\* DRIVING_TO_DEST on the pickup after the tick, with the ride still ACCEPTED
\* and the rider IN_TRANSIT; a driver on its way to the dropoff that reaches
\* it leaves the ride COMPLETED, the driver IDLE on the dropoff with no
\* current ride, and the rider COMPLETED with no current ride.
C28_OnePhaseStepPerTick ==
    [][ response'.op = "tick" =>
            \A r \in Rides :
                LET ride == ride_requests[r]
                    D == ride.assigned_driver_id
                    p == ride.rider_id
                IN (ride.status = "accepted" /\ D \in DOMAIN drivers /\ p \in DOMAIN riders) =>
                       /\ ( /\ drivers[D].status = "going_to_pickup"
                            /\ Arrives(drivers[D].location, ride.pickup_location) ) =>
                               /\ drivers'[D].status = "driving_to_dest"
                               /\ drivers'[D].location = ride.pickup_location
                               /\ ride_requests'[r].status = "accepted"
                               /\ riders'[p].status = "in_transit"
                       /\ ( /\ drivers[D].status = "driving_to_dest"
                            /\ Arrives(drivers[D].location, ride.dropoff_location) ) =>
                               /\ ride_requests'[r].status = "completed"
                               /\ drivers'[D].status = "idle"
                               /\ drivers'[D].current_ride_id = NONE
                               /\ drivers'[D].location = ride.dropoff_location
                               /\ riders'[p].status = "completed"
                               /\ riders'[p].current_ride_id = NONE
      ]_vars

\* the ride requests that a tick works on
AcceptedRides == {r \in Rides : ride_requests[r].status = "accepted"}

\* C29: a tick changes the tick counter and the entities of the accepted
\* rides only.  No driver, rider or ride request comes or goes; an idle driver
\* and any driver that no accepted ride is assigned to keeps its location,
\* status and queue of offers; a ride request that is PENDING, REJECTED or
\* COMPLETED keeps every field; a rider with no accepted ride keeps its status
\* and current ride; no list of rejecting drivers changes.
C29_TickFrame ==
    [][ response'.op = "tick" =>
            /\ DOMAIN drivers' = DOMAIN drivers
            /\ DOMAIN riders' = DOMAIN riders
            /\ DOMAIN ride_requests' = DOMAIN ride_requests
            /\ \A d \in DOMAIN drivers :
                   ( \/ drivers[d].status = "idle"
                     \/ \A r \in AcceptedRides : ride_requests[r].assigned_driver_id # d ) =>
                       /\ drivers'[d].location = drivers[d].location
                       /\ drivers'[d].status = drivers[d].status
                       /\ drivers'[d].pending_requests = drivers[d].pending_requests
            /\ \A r \in Rides \ AcceptedRides : ride_requests'[r] = ride_requests[r]
            /\ \A p \in DOMAIN riders :
                   (\A r \in AcceptedRides : ride_requests[r].rider_id # p) =>
                       /\ riders'[p].status = riders[p].status
                       /\ riders'[p].current_ride_id = riders[p].current_ride_id
            /\ \A r \in Rides : ride_requests'[r].rejected_by = ride_requests[r].rejected_by
      ]_vars

\* a tick has taken a driver onto the pickup of its ride while an idle
\* driver holds the offer of a pending ride request that another driver
\* rejected
C29_Witness ==
    /\ response.op = "tick"
    /\ \E d \in DOMAIN drivers : drivers[d].status = "driving_to_dest"
    /\ \E d \in DOMAIN drivers, r \in Rides :
           /\ drivers[d].status = "idle"
           /\ drivers[d].pending_requests = <<r>>
           /\ ride_requests[r].status = "pending"
           /\ ride_requests[r].rejected_by # <<>>

\* d with the key k taken out
Without(d, k) == [j \in DOMAIN d \ {k} |-> d[j]]

\* C30: delete_driver and delete_rider of an entity that is in the store
\* answer 200 whatever ride request refers to it, and change the driver resp.
\* rider store only, by taking that one entity out: every ride request keeps
\* all its fields (status, assigned driver, rider reference), the other
\* drivers keep their queues, and the riders resp. drivers and the tick
\* counter are as before.
C30_DeleteFrame ==
    [][ /\ response'.op = "delete_driver" =>
               \A driver_id \in DOMAIN drivers :
                   \/ /\ response'.code = 200
                      /\ drivers' = Without(drivers, driver_id)
                      /\ UNCHANGED <<riders, ride_requests, current_tick>>
                   \/ ~delete_driver(driver_id)
        /\ response'.op = "delete_rider" =>
               \A rider_id \in DOMAIN riders :
                   \/ /\ response'.code = 200
                      /\ riders' = Without(riders, rider_id)
                      /\ UNCHANGED <<drivers, ride_requests, current_tick>>
                   \/ ~delete_rider(rider_id)
      ]_vars

\* a driver has been deleted while the accepted ride it was driving still
\* names it, and another driver is left
C30_Witness ==
    /\ response.op = "delete_driver"
    /\ response.code = 200
    /\ drivers # <<>>
    /\ \E r \in Rides :
           /\ ride_requests[r].status = "accepted"
           /\ ride_requests[r].assigned_driver_id # NONE
           /\ ride_requests[r].assigned_driver_id \notin DOMAIN drivers

\* after the call request r waits, PENDING, in the queue of the driver of E
\* that is nearest to the pickup and, of the nearest ones, was created first
RoutedToEarliestClosest(r, E) ==
    LET d == ride_requests'[r].assigned_driver_id
        pickup == ride_requests'[r].pickup_location
    IN /\ ride_requests'[r].status = "pending"
       /\ d \in E
       /\ r \in Range(drivers'[d].pending_requests)
       /\ \A e \in E :
              \/ SquaredDistance(drivers[d].location, pickup)
                     < SquaredDistance(drivers[e].location, pickup)
              \/ /\ SquaredDistance(drivers[d].location, pickup)
                        = SquaredDistance(drivers[e].location, pickup)
                 /\ d <= e

\* C31: whenever a request is routed (at request_ride, on reject, in the
\* fan-out of an accept) and several eligible drivers are at the same minimal
\* distance from the pickup, the request goes to the one of them that was
\* created first, whatever the lengths of their queues.
C31_TieGoesToEarliest ==
    [][/\ (response'.op = "request_ride" /\ response'.code = 200)
           => LET E == Eligible({}, NoLoad)
              IN E # {} => RoutedToEarliestClosest(next_id.ride, E)
       /\ (response'.op = "respond" /\ response'.code = 200)
           => \A r \in Rides :
                  LET D == ride_requests[r].assigned_driver_id
                      others == OtherOffers(D, r)
                  IN /\ (\E a \in RejectActions : driver_respond_to_ride(r, a))
                         => LET E == Eligible(Range(ride_requests[r].rejected_by) \cup {D},
                                              NoLoad)
                            IN E # {} => RoutedToEarliestClosest(r, E)
                     /\ (\E a \in AcceptActions : driver_respond_to_ride(r, a))
                         => \A i \in DOMAIN others :
                                LET earlier(d) ==
                                        Cardinality({j \in 1..(i - 1) :
                                            ride_requests'[others[j]].assigned_driver_id = d})
                                    E == Eligible(Range(ride_requests[others[i]].rejected_by)
                                                      \cup {D}, earlier)
                                IN E # {} => RoutedToEarliestClosest(others[i], E)]_vars

\* request_ride has just routed a request to the earlier of two idle drivers
\* at the same, minimal, distance from the pickup, although the later one
\* has the shorter queue
C31_Witness ==
    /\ response.op = "request_ride"
    /\ \E d \in DOMAIN drivers, e \in DOMAIN drivers :
           LET r == next_id.ride - 1
           IN /\ r \in Rides
              /\ ride_requests[r].status = "pending"
              /\ ride_requests[r].assigned_driver_id = d
              /\ d < e
              /\ drivers[d].status = "idle"
              /\ drivers[e].status = "idle"
              /\ Len(drivers[e].pending_requests) + 1 < Len(drivers[d].pending_requests)
              /\ SquaredDistance(drivers[d].location, ride_requests[r].pickup_location)
                     = SquaredDistance(drivers[e].location, ride_requests[r].pickup_location)
              /\ \A f \in DOMAIN drivers :
                     SquaredDistance(drivers[d].location, ride_requests[r].pickup_location)
                         <= SquaredDistance(drivers[f].location, ride_requests[r].pickup_location)

\* C32: in every reachable state, for every driver D in the store and every
\* ride request r, r is in the queue of D exactly when r is PENDING with
\* assigned driver D; so no ride request occurs twice in a queue or in the
\* queues of two drivers, every queued identifier names a ride request in the
\* store, and no ACCEPTED, REJECTED or COMPLETED ride request is queued.
C32_QueueMatchesAssignment ==
    /\ \A D \in DOMAIN drivers :
           LET queue == drivers[D].pending_requests
           IN /\ Range(queue) \subseteq Rides
              /\ \A r \in Rides :
                     r \in Range(queue) <=>
                         /\ ride_requests[r].status = "pending"
                         /\ ride_requests[r].assigned_driver_id = D
              /\ \A i \in DOMAIN queue, j \in DOMAIN queue : queue[i] = queue[j] => i = j
    /\ \A D \in DOMAIN drivers, E \in DOMAIN drivers :
           D # E => Range(drivers[D].pending_requests)
                        \cap Range(drivers[E].pending_requests) = {}

\* a driver has rejected a ride request, which now waits in the queue of
\* the other driver and nowhere else
C32_Witness ==
    /\ response.op = "respond"
    /\ \E D \in DOMAIN drivers, E \in DOMAIN drivers, r \in Rides :
           /\ D # E
           /\ ride_requests[r].status = "pending"
           /\ ride_requests[r].rejected_by = <<E>>
           /\ ride_requests[r].assigned_driver_id = D
           /\ drivers[D].pending_requests = <<r>>
           /\ drivers[E].pending_requests = <<>>

\* C33: in every reachable state a driver that is not IDLE has an empty queue
\* of offers, the assigned driver of a PENDING ride request is IDLE when it
\* is in the store, and so no accept of a PENDING ride request whose driver
\* is in the store is refused: the "driver is not idle" answer cannot be
\* reached.
C33_BusyDriverHasNoOffers ==
    /\ \A d \in DOMAIN drivers :
           drivers[d].status # "idle" => drivers[d].pending_requests = <<>>
    /\ \A r \in Rides :
           LET D == ride_requests[r].assigned_driver_id
           IN (ride_requests[r].status = "pending" /\ D \in DOMAIN drivers) =>
                  /\ drivers[D].status = "idle"
                  /\ \A a \in AcceptActions :
                         respond_error(drivers, ride_requests, r, a) = 0

\* a driver is on its way to the pickup of the ride it accepted, with an
\* empty queue, and the other offer it held waits with an idle driver
C33_Witness ==
    \E d \in DOMAIN drivers, e \in DOMAIN drivers, r \in Rides :
        /\ drivers[d].status = "going_to_pickup"
        /\ drivers[d].pending_requests = <<>>
        /\ ride_requests[r].status = "pending"
        /\ ride_requests[r].rejected_by = <<d>>
        /\ ride_requests[r].assigned_driver_id = e
        /\ drivers[e].status = "idle"

\* the ACCEPTED ride requests whose assigned driver is d
AcceptedBy(d) ==
    {r \in Rides : /\ ride_requests[r].status = "accepted"
                   /\ ride_requests[r].assigned_driver_id = d}

\* every driver, deleted or not, is the assigned driver of at most one
\* ACCEPTED ride request, and the current ride of a driver in the store is
\* that ride request, or none when there is none
OneRidePerDriver ==
    /\ \A r \in Rides, q \in Rides :
           ( /\ ride_requests[r].status = "accepted"
             /\ ride_requests[q].status = "accepted"
             /\ ride_requests[r].assigned_driver_id = ride_requests[q].assigned_driver_id )
               => r = q
    /\ \A d \in DOMAIN drivers :
           /\ \A r \in Rides : drivers[d].current_ride_id = r <=> r \in AcceptedBy(d)
           /\ drivers[d].current_ride_id \in Rides \cup {NONE}

\* C34: in every reachable state each driver is the assigned driver of at
\* most one ACCEPTED ride request, and a driver in the store has
\* current_ride_id = r exactly when r is ACCEPTED with that driver assigned;
\* so a tick moves a driver at most once, by at most one cell on each axis.
C34_OneRidePerDriver ==
    [][ /\ OneRidePerDriver
        /\ OneRidePerDriver'
        /\ response'.op = "tick" =>
               \A d \in DOMAIN drivers :
                   /\ d \in DOMAIN drivers'
                   /\ Chebyshev(drivers[d].location, drivers'[d].location) <= 1
      ]_vars

\* a tick has moved two drivers, each toward the one ride it accepted
C34_Witness ==
    /\ response.op = "tick"
    /\ \E d \in DOMAIN drivers, e \in DOMAIN drivers :
           /\ d # e
           /\ drivers[d].current_ride_id # NONE
           /\ drivers[e].current_ride_id # NONE
           /\ drivers[d].current_ride_id # drivers[e].current_ride_id
           /\ AcceptedBy(d) = {drivers[d].current_ride_id}
           /\ AcceptedBy(e) = {drivers[e].current_ride_id}

\* ride request r is in the store and PENDING
Pending(r) == r \in Rides /\ ride_requests[r].status = "pending"

\* ride request r is in the store and ACCEPTED or REJECTED
Settled(r) == r \in Rides /\ ride_requests[r].status \in {"accepted", "rejected"}

\* The safety half of C35.  rejected_by only grows and names no driver twice,
\* and never more drivers than were ever created, so a ride request is
\* re-routed at most that many times; the driver a PENDING ride request is
\* offered to is not in its rejected_by; a driver that an offer is taken from
\* is in rejected_by from then on, and a driver that gets the offer is not:
\* no driver is offered the same ride request twice.
OfferedOnce ==
    [][ /\ \A r \in Rides' :
               LET ride == ride_requests'[r]
               IN /\ \A i \in DOMAIN ride.rejected_by, j \in DOMAIN ride.rejected_by :
                         ride.rejected_by[i] = ride.rejected_by[j] => i = j
                  /\ Range(ride.rejected_by) \subseteq 1..(next_id'.driver - 1)
                  /\ Len(ride.rejected_by) <= next_id'.driver - 1
                  /\ ride.status = "pending" =>
                         ride.assigned_driver_id \notin Range(ride.rejected_by)
        /\ \A r \in Rides \cap Rides' :
               LET old == ride_requests[r].assigned_driver_id
                   new == ride_requests'[r].assigned_driver_id
                   rejected_by == ride_requests'[r].rejected_by
               IN /\ IsPrefix(ride_requests[r].rejected_by, rejected_by)
                  /\ (new # old /\ old # NONE) => old \in Range(rejected_by)
                  /\ (new # old /\ new # NONE) => new \notin Range(rejected_by)
      ]_vars

\* C35 as stated: a ride request is offered to a driver at most once,
\* rejected_by never names a driver twice, a ride request is re-routed at
\* most as many times as drivers were ever created, and, with drivers that
\* answer every offer they hold, every PENDING ride request is ACCEPTED or
\* REJECTED in the end.
C35_ReroutingTerminates ==
    /\ OfferedOnce
    /\ \A r \in 1..MaxAnswerRides : Pending(r) ~> Settled(r)

\* C35 amended: the same, where in the end every PENDING ride request is
\* ACCEPTED or REJECTED unless the driver that holds its offer is deleted,
\* which leaves it PENDING.
C35_ReroutingTerminatesUnlessDriverDeleted ==
    /\ OfferedOnce
    /\ \A r \in 1..MaxAnswerRides :
           (Pending(r) /\ ride_requests[r].assigned_driver_id \in DOMAIN drivers)
               ~> \/ Settled(r)
                  \/ Pending(r) /\ ride_requests[r].assigned_driver_id \notin DOMAIN drivers

\* a ride request has been rejected by every driver ever created, two of
\* them, one after the other, and is REJECTED
C35_Witness ==
    \E r \in Rides :
        /\ ride_requests[r].status = "rejected"
        /\ Len(ride_requests[r].rejected_by) = next_id.driver - 1
        /\ Len(ride_requests[r].rejected_by) >= 2
        /\ ride_requests[r].assigned_driver_id = NONE

\* the PENDING ride requests whose assigned driver has been deleted
Stuck ==
    {r \in Rides : /\ ride_requests[r].status = "pending"
                   /\ ride_requests[r].assigned_driver_id # NONE
                   /\ ride_requests[r].assigned_driver_id \notin DOMAIN drivers}

\* C36: once the assigned driver of a PENDING ride request has been deleted,
\* every accept and every reject of it, like any other answer, is refused with
\* 400 and changes no store, and every call but clear_state leaves the ride
\* request as it is, PENDING with the same dangling assigned driver and the
\* same rejected_by, in no queue: it is never re-routed.
C36_DeletedDriverLeavesRequestStuck ==
    [][ \A r \in Stuck :
            /\ response'.op # "clear_state" =>
                   /\ r \in Rides'
                   /\ ride_requests'[r] = ride_requests[r]
                   /\ ride_requests[r].assigned_driver_id \notin DOMAIN drivers'
                   /\ \A d \in DOMAIN drivers' : r \notin Range(drivers'[d].pending_requests)
            /\ response'.op = "respond" =>
                   \A a \in Actions :
                       \/ response'.code = 400 /\ UNCHANGED store
                       \/ ~driver_respond_to_ride(r, a)
      ]_vars

\* an answer for a PENDING ride request has just been refused with 400: the
\* driver it was offered to is deleted, and an idle driver that never
\* rejected it stands by
C36_Witness ==
    /\ response.op = "respond"
    /\ response.code = 400
    /\ \E r \in Stuck, d \in DOMAIN drivers :
           /\ drivers[d].status = "idle"
           /\ d \notin Range(ride_requests[r].rejected_by)
           /\ Rides = {r}

====
